---------------------------- MODULE Spec2Model ----------------------------
(***************************************************************************)
(* Model of collector.py: the paginated fetch of the parking-sensor API,   *)
(* the flattening of its records, the CSV and gzip-JSONL sinks and the     *)
(* two run drivers (single shot and continuous).                           *)
(*                                                                         *)
(* Representation of Python values:                                        *)
(*   - a JSON value is a tagged tuple: <<"str", s>>, <<"num", n>>,         *)
(*     <<"null">> or <<"dict", f>> with f a function on its keys;          *)
(*   - a dict whose key order matters (the flattened record) is a          *)
(*     sequence of <<key, value>> pairs in insertion order;                *)
(*   - a timestamp string is a sequence of one-character strings, so that  *)
(*     strptime can read it position by position; Str joins it into one    *)
(*     string where it is only carried as data;                            *)
(*   - a path is a tuple of its components.                                *)
(***************************************************************************)
EXTENDS Integers, Sequences, FiniteSets, TLC

(***************************************************************************)
(* Bounds of the model.                                                    *)
(***************************************************************************)
\* requests the API answers in all, over every fetch of every process run;
\* the last of them is never answered with a full page
MaxRequests == 3

(***************************************************************************)
(* Program constants.                                                      *)
(***************************************************************************)
limit == 100
INTERVAL_MINUTES == 1
CSV_FILE == <<"parking_sensors_data.csv">>

(***************************************************************************)
(* Python dict and list helpers.                                           *)
(***************************************************************************)
EmptyDict == <<"dict", <<>>>>

\* d.get(key, default) on a JSON mapping <<"dict", f>>
Get(d, key, default) == IF key \in DOMAIN d[2] THEN d[2][key] ELSE default

\* isinstance(v, dict)
IsDict(v) == v[1] = "dict"

\* the value stored under key in an insertion-ordered dict
RECURSIVE Lookup(_, _, _)
Lookup(pairs, key, default) ==
    IF pairs = <<>> THEN default
    ELSE IF Head(pairs)[1] = key THEN Head(pairs)[2]
    ELSE Lookup(Tail(pairs), key, default)

\* the keys of an insertion-ordered dict, in order
Keys(pairs) == [i \in 1..Len(pairs) |-> pairs[i][1]]

\* the concatenation of a sequence of sequences
RECURSIVE Concat(_)
Concat(ss) == IF ss = <<>> THEN <<>> ELSE Head(ss) \o Concat(Tail(ss))

\* "".join(chars)
RECURSIVE Str(_)
Str(chars) == IF chars = <<>> THEN "" ELSE Head(chars) \o Str(Tail(chars))

(***************************************************************************)
(* The API's data: the raw record served at absolute position k.  Its      *)
(* shape cycles over the forms the flattener distinguishes; seed shifts    *)
(* the cycle, so that the data differs from one fetch to the next.         *)
(***************************************************************************)
Location(shape) ==
    CASE shape = 0 -> <<"dict", [lon |-> <<"num", 144>>, lat |-> <<"num", 37>>]>>
      [] shape = 1 -> <<"dict", [lon |-> <<"num", 145>>]>>
      [] shape = 2 -> <<"str", "unknown">>
      [] OTHER     -> <<"null">>

Status(shape) ==
    CASE shape = 0 -> <<"str", "Present">>
      [] shape = 1 -> <<"str", "Unoccupied">>
      [] shape = 2 -> <<"str", "Other">>
      [] OTHER     -> <<"str", "present">>

Fields(k, shape) ==
    CASE shape \in {0, 1, 2} ->
           <<"dict", [lastupdated        |-> <<"str", "2024-03-01T05:00:00+00:00">>,
                      status_timestamp   |-> <<"str", "2024-03-01T04:" \o ToString(k % 60)>>,
                      zone_number        |-> <<"num", k % 7>>,
                      status_description |-> Status(shape),
                      kerbsideid         |-> <<"str", ToString(k)>>,
                      location           |-> Location(shape)]>>
      [] shape = 3 ->
           <<"dict", [zone_number        |-> <<"null">>,
                      status_description |-> Status(shape),
                      kerbsideid         |-> <<"num", k>>]>>
      [] OTHER -> EmptyDict

RawRecord(k, seed) ==
    LET shape == (k + seed) % 6 IN
    CASE shape \in {0, 1, 2, 3} ->
           <<"dict", [record |-> <<"dict", [id     |-> <<"num", k>>,
                                            fields |-> Fields(k, shape)]>>]>>
      [] shape = 4 ->
           <<"dict", [record |-> <<"dict", [id |-> <<"num", k>>]>>]>>
      [] OTHER ->
           <<"dict", [links |-> <<"num", k>>]>>

\* the page of n records the API serves at an offset
Page(off, n, seed) == [i \in 1..n |-> RawRecord(off + i - 1, seed)]

(***************************************************************************)
(* flatten_record                                                          *)
(***************************************************************************)
\* a flattener that copies a location that is no mapping into location_lon
FlattenRawLocation(record, api_call_time) ==
    LET fields   == Get(Get(record, "record", EmptyDict), "fields", EmptyDict)
        location == Get(fields, "location", EmptyDict)
        scalar(key) == <<key, Get(fields, key, <<"str", "">>)>>
    IN  << <<"api_call_time", <<"str", api_call_time>> >>,
           scalar("lastupdated"), scalar("status_timestamp"),
           scalar("zone_number"), scalar("status_description"),
           scalar("kerbsideid"),
           <<"location_lon", IF IsDict(location)
                             THEN Get(location, "lon", <<"str", "">>)
                             ELSE location>>,
           <<"location_lat", IF IsDict(location)
                             THEN Get(location, "lat", <<"str", "">>)
                             ELSE <<"str", "">> >> >>

\* a flattener that leaves out the scalar fields the record does not carry
FlattenPresentOnly(record, api_call_time) ==
    LET fields   == Get(Get(record, "record", EmptyDict), "fields", EmptyDict)
        location == Get(fields, "location", EmptyDict)
        scalars  == <<"lastupdated", "status_timestamp", "zone_number",
                      "status_description", "kerbsideid">>
        present  == SelectSeq(scalars, LAMBDA key : key \in DOMAIN fields[2])
    IN  << <<"api_call_time", <<"str", api_call_time>> >> >>
        \o [i \in 1..Len(present) |-> <<present[i], fields[2][present[i]]>>]
        \o << <<"location_lon", IF IsDict(location)
                                 THEN Get(location, "lon", <<"str", "">>)
                                 ELSE <<"str", "">> >>,
               <<"location_lat", IF IsDict(location)
                                 THEN Get(location, "lat", <<"str", "">>)
                                 ELSE <<"str", "">> >> >>

flatten_record(record, api_call_time) ==
    LET inner_record == Get(record, "record", EmptyDict)
        fields       == Get(inner_record, "fields", EmptyDict)
        location     == Get(fields, "location", EmptyDict)
        flattened ==
          << <<"api_call_time",      <<"str", api_call_time>> >>,
             <<"lastupdated",        Get(fields, "lastupdated", <<"str", "">>)>>,
             <<"status_timestamp",   Get(fields, "status_timestamp", <<"str", "">>)>>,
             <<"zone_number",        Get(fields, "zone_number", <<"str", "">>)>>,
             <<"status_description", Get(fields, "status_description", <<"str", "">>)>>,
             <<"kerbsideid",         Get(fields, "kerbsideid", <<"str", "">>)>> >>
    IN  IF IsDict(location)
        THEN flattened \o
             << <<"location_lon", Get(location, "lon", <<"str", "">>)>>,
                <<"location_lat", Get(location, "lat", <<"str", "">>)>> >>
        ELSE flattened \o
             << <<"location_lon", <<"str", "">> >>,
                <<"location_lat", <<"str", "">> >> >>

\* lines 108-116 and 137-143: the debug blocks a call prints, one for each
\* of the two function attributes found unset
FlattenPrints(debug_set, flattened_set) ==
    (IF debug_set THEN <<>> ELSE <<"DEBUG: FLATTENING RECORD">>)
      \o (IF flattened_set THEN <<>> ELSE <<"DEBUG: FLATTENED RESULT">>)

\* a call whose first result carries its debug output
FlattenReturnsDebugOnce(record, api_call_time, debug_set, flattened_set) ==
    IF flattened_set THEN flatten_record(record, api_call_time)
    ELSE Append(flatten_record(record, api_call_time),
                <<"debug", <<"str", "DEBUG: FLATTENED RESULT">> >>)

\* line 145: what a call returns, made with the function attributes as given
FlattenReturns(record, api_call_time, debug_set, flattened_set) ==
    flatten_record(record, api_call_time)

\* [flatten_record(record, api_call_time) for record in data]
FlattenAll(data, api_call_time) ==
    [i \in 1..Len(data) |-> flatten_record(data[i], api_call_time)]

(***************************************************************************)
(* datetime: a clock reading is a number of seconds since                  *)
(* 2024-03-01 00:00:00; a datetime is the record of its fields.            *)
(***************************************************************************)
FromClock(c) ==
    [year   |-> 2024, month |-> 3, day |-> 1 + (c \div 86400),
     hour   |-> (c % 86400) \div 3600,
     minute |-> (c % 3600) \div 60,
     second |-> c % 60]

Digit(d) == ToString(d)

DigitValue(ch) == CHOOSE d \in 0..9 : ToString(d) = ch

\* a number zero-padded to two and to four digits, as characters
Pad2(n) == <<Digit((n \div 10) % 10), Digit(n % 10)>>
Pad4(n) == <<Digit((n \div 1000) % 10), Digit((n \div 100) % 10)>> \o Pad2(n)

\* the number written by a run of digit characters
RECURSIVE Number(_)
Number(chars) ==
    IF chars = <<>> THEN 0
    ELSE 10 * Number(SubSeq(chars, 1, Len(chars) - 1)) + DigitValue(chars[Len(chars)])

\* dt.strftime('%Y-%m-%d')
StrftimeDay(dt) == Pad4(dt.year) \o <<"-">> \o Pad2(dt.month) \o <<"-">> \o Pad2(dt.day)

\* dt.strftime('%H%M')
StrftimeHHMM(dt) == Pad2(dt.hour) \o Pad2(dt.minute)

\* dt.strftime('%Y-%m-%d %H:%M:%S')
Strftime(dt) ==
    StrftimeDay(dt) \o <<" ">> \o Pad2(dt.hour) \o <<":">> \o Pad2(dt.minute)
        \o <<":">> \o Pad2(dt.second)

\* datetime.strptime(s, '%Y-%m-%d %H:%M:%S')
Strptime(s) ==
    [year   |-> Number(SubSeq(s, 1, 4)),
     month  |-> Number(SubSeq(s, 6, 7)),
     day    |-> Number(SubSeq(s, 9, 10)),
     hour   |-> Number(SubSeq(s, 12, 13)),
     minute |-> Number(SubSeq(s, 15, 16)),
     second |-> Number(SubSeq(s, 18, 19))]

(***************************************************************************)
(* The file system: fs maps the path of every existing file to its         *)
(* content, dirs is the set of existing directories.  A text file is the   *)
(* sequence of its lines.  A gzip file is the sequence of its members      *)
(* (every open in append mode starts a new member), each the sequence of   *)
(* the lines written through that open; reading it yields the members'     *)
(* lines one after the other.                                              *)
(***************************************************************************)
\* os.path.isfile(path)
IsFile(files, path) == path \in DOMAIN files

\* open(path, 'w'): an open that empties the file
OpenTruncate(files, path) == (path :> <<>>) @@ files

\* open(path, 'a'): creates the file when absent, keeps its content otherwise
OpenAppend(files, path) ==
    IF path \in DOMAIN files THEN files ELSE files @@ (path :> <<>>)

\* write through a text file opened in append mode
WriteLines(files, path, lines) == [files EXCEPT ![path] = @ \o lines]

\* gzip.open(path, 'wt'): an open that empties the file
GzipOpenTruncate(files, path) == (path :> << <<>> >>) @@ files

\* gzip.open(path, 'at'): a new member after the existing ones
GzipOpenAppend(files, path) ==
    IF path \in DOMAIN files
    THEN [files EXCEPT ![path] = Append(@, <<>>)]
    ELSE files @@ (path :> << <<>> >>)

\* write through a gzip file opened in append mode: into its last member
GzipWriteLines(files, path, lines) ==
    [files EXCEPT ![path] = [@ EXCEPT ![Len(@)] = @ \o lines]]

\* gzip.open(path, 'rt').readlines()
GzipReadLines(files, path) == Concat(files[path])

(***************************************************************************)
(* save_to_csv                                                             *)
(***************************************************************************)
fieldnames ==
    <<"api_call_time", "lastupdated", "status_timestamp", "zone_number",
      "status_description", "kerbsideid", "location_lon", "location_lat">>

\* the text csv.writer gives a value: str(value), and '' for None
CsvCell(v) ==
    CASE v[1] = "str"  -> v[2]
      [] v[1] = "num"  -> ToString(v[2])
      [] v[1] = "null" -> ""
      [] OTHER         -> "{...}"

\* ",".join(cells)
RECURSIVE CsvLine(_)
CsvLine(cells) ==
    IF Len(cells) = 1 THEN cells[1]
    ELSE cells[1] \o "," \o CsvLine(Tail(cells))

\* DictWriter.writeheader()
CsvHeaderLine == CsvLine(fieldnames)

\* the line DictWriter.writerow(rowdict) writes: the fields in fieldnames order
CsvRowLine(rowdict) ==
    CsvLine([i \in 1..Len(fieldnames) |->
                CsvCell(Lookup(rowdict, fieldnames[i], <<"str", "">>))])

\* DictWriter.writerows(rows)
CsvRowLines(rows) == [i \in 1..Len(rows) |-> CsvRowLine(rows[i])]

\* a header written on no call
WritesHeaderNever(exists) == FALSE

\* a header written on every call
WritesHeaderAlways(exists) == TRUE

\* line 188: the header is written only into a file found absent
WritesHeader(exists) == ~exists

\* lines 184-192 after the open: the header, if any
CsvWriteHeader(files, exists) ==
    IF WritesHeader(exists) THEN WriteLines(files, CSV_FILE, <<CsvHeaderLine>>)
    ELSE files

\* line 195
CsvWriteRows(files, rows) == WriteLines(files, CSV_FILE, CsvRowLines(rows))

\* a sink with no test for empty data
CsvSkipsNever(data) == FALSE

\* line 156: nothing is done with no data
CsvSkips(data) == data = <<>>

\* the whole call save_to_csv(data, api_call_time), run without interruption
save_to_csv(files, data, api_call_time) ==
    IF CsvSkips(data) THEN files
    ELSE LET flattened_data == FlattenAll(data, api_call_time)
             file_exists    == IsFile(files, CSV_FILE)
         IN  CsvWriteRows(
                 CsvWriteHeader(OpenAppend(files, CSV_FILE), file_exists),
                 flattened_data)

(***************************************************************************)
(* save_to_jsonl_gz                                                        *)
(***************************************************************************)
\* the digits of a natural number
RECURSIVE Digits(_)
Digits(n) == IF n < 10 THEN <<Digit(n)>> ELSE Digits(n \div 10) \o <<Digit(n % 10)>>

\* a dump that writes every scalar as a string, the way the CSV sink does
JsonDumpsValueAsText(v) == <<"\"", CsvCell(v), "\"">>

\* json.dumps of a scalar: its tokens
JsonDumpsValue(v) ==
    CASE v[1] = "str"  -> <<"\"", v[2], "\"">>
      [] v[1] = "num"  -> Digits(v[2])
      [] OTHER         -> <<"null">>

\* json.loads of a scalar's tokens
JsonLoadsValue(tokens) ==
    IF tokens[1] = "\"" THEN <<"str", tokens[2]>>
    ELSE IF tokens = <<"null">> THEN <<"null">>
    ELSE <<"num", Number(tokens)>>

\* json.dumps(row, ensure_ascii=False): per key, in the mapping's order, the
\* key followed by the tokens of its value
JsonDumps(row) == [i \in 1..Len(row) |-> <<row[i][1]>> \o JsonDumpsValue(row[i][2])]

\* json.loads(line)
JsonLoads(line) ==
    [i \in 1..Len(line) |-> <<line[i][1], JsonLoadsValue(Tail(line[i]))>>]

JsonLines(rows) == [i \in 1..Len(rows) |-> JsonDumps(rows[i])]

\* lines 282-287: data/raw/<YYYY-MM-DD>/<HHMM>.jsonl.gz
OutDir(dt_utc) == <<"data", "raw", Str(StrftimeDay(Strptime(dt_utc)))>>

OutPath(dt_utc) ==
    Append(OutDir(dt_utc), Str(StrftimeHHMM(Strptime(dt_utc))) \o ".jsonl.gz")

\* out_dir.mkdir(parents=True, exist_ok=True)
Mkdir(ds, dir) == ds \cup {SubSeq(dir, 1, i) : i \in 1..Len(dir)}

\* lines 288-290
GzWriteRows(files, path, rows) == GzipWriteLines(files, path, JsonLines(rows))

\* the whole call save_to_jsonl_gz(flattened_records, dt_utc), run without
\* interruption: the file system after it
save_to_jsonl_gz(files, flattened_records, dt_utc) ==
    GzWriteRows(GzipOpenAppend(files, OutPath(dt_utc)), OutPath(dt_utc),
                flattened_records)

(***************************************************************************)
(* The occupancy summary of run_once and run_once_write_jsonl.             *)
(***************************************************************************)
\* a status read from the top level of the raw record
StatusOfTopLevel(record) == Get(record, "status_description", <<"str", "">>)

\* lines 225-227 and 316-318
StatusOf(record) ==
    Get(Get(Get(record, "record", EmptyDict), "fields", EmptyDict),
        "status_description", <<"str", "">>)

CountStatus(data, status) ==
    Cardinality({i \in 1..Len(data) : StatusOf(data[i]) = <<"str", status>>})

Summary(data) ==
    [total      |-> Len(data),
     occupied   |-> CountStatus(data, "Present"),
     unoccupied |-> CountStatus(data, "Unoccupied")]

(***************************************************************************)
(* State.                                                                  *)
(***************************************************************************)
VARIABLES
    fs,              \* the files: path -> content
    dirs,            \* the directories
    clock,           \* wall clock, seconds since 2024-03-01 00:00:00
    asked,           \* requests the API has answered so far, in all
    seed,            \* which data the API serves to the running fetch
    calls,           \* direct sink calls made so far
    pc,              \* where the running process stands; "idle" when none runs
    RUN_GITHUB,      \* the environment signal read at line 332
    api_call_time,   \* run_once / run_once_write_jsonl: the call time string
    offset,          \* get_all_parking_data
    all_data,        \* get_all_parking_data; the caller's data after the return
    requests,        \* history: the params of this fetch's requests, in order
    responses,       \* history: [status, n] of this fetch's responses, in order
    file_exists,     \* save_to_csv
    flattened_data,  \* save_to_csv / run_once_write_jsonl
    out_path,        \* save_to_jsonl_gz; <<>> before the first call
    summary,         \* the occupancy summary last printed
    iteration,       \* run_continuously
    completed,       \* history: run_once calls of this process that returned
    logged,          \* "Total iterations completed" as printed; -1 before
    exit,            \* how the last process ended; "none" before
    call,            \* history: the last sink call, [sink, n, fresh]
    csv_calls,       \* history: the data of every direct save_to_csv call
    printed_debug,   \* flatten_record.printed_debug is set
    printed_flattened, \* flatten_record.printed_flattened is set
    flat_calls,      \* history: every direct flatten_record call and its outcome
    proc             \* the concurrent save_to_csv calls: their locals and places

vars == <<fs, dirs, clock, asked, seed, calls, pc, RUN_GITHUB, api_call_time,
          offset, all_data, requests, responses, file_exists, flattened_data,
          out_path, summary, iteration, completed, logged, exit, call,
          csv_calls, printed_debug, printed_flattened, flat_calls, proc>>

files_vars  == <<fs, dirs>>
fetch_vars  == <<offset, all_data, requests, responses>>
loop_vars   == <<iteration, completed, logged, exit>>
flat_vars   == <<printed_debug, printed_flattened, flat_calls>>

NoCall == [sink |-> "none", n |-> 0, fresh |-> FALSE]

\* the two processes that may call save_to_csv at the same time
Procs == {"a", "b"}

\* a process that has not called save_to_csv
NoProc == [pc |-> "none", flattened_data |-> <<>>, file_exists |-> FALSE,
           buffer |-> <<>>, saw |-> {}]

\* the clock reading at the start: 05:58:30
StartClock == 5 * 3600 + 58 * 60 + 30

Init ==
    /\ fs = <<>>
    /\ dirs = {}
    /\ clock = StartClock
    /\ asked = 0
    /\ seed = 0
    /\ calls = 0
    /\ pc = "idle"
    /\ RUN_GITHUB = FALSE
    /\ api_call_time = <<>>
    /\ offset = 0
    /\ all_data = <<>>
    /\ requests = <<>>
    /\ responses = <<>>
    /\ file_exists = FALSE
    /\ flattened_data = <<>>
    /\ out_path = <<>>
    /\ summary = Summary(<<>>)
    /\ iteration = 0
    /\ completed = 0
    /\ logged = -1
    /\ exit = "none"
    /\ call = NoCall
    /\ csv_calls = <<>>
    /\ printed_debug = FALSE
    /\ printed_flattened = FALSE
    /\ flat_calls = <<>>
    /\ proc = [p \in Procs |-> NoProc]

(***************************************************************************)
(* The environment: process starts.  Time passes in the sleep of the       *)
(* continuous mode alone; a run takes less than a second.                  *)
(***************************************************************************)
\* lines 329-341: a process starts, in the mode the environment selects
Start(github) ==
    /\ pc = "idle"
    /\ asked < MaxRequests
    /\ RUN_GITHUB' = github
    /\ pc' = IF github THEN "run_start" ELSE "loop_top"
    /\ iteration' = IF github THEN 0 ELSE 1
    /\ completed' = 0
    /\ logged' = -1
    /\ exit' = "none"
    /\ printed_debug' = FALSE
    /\ printed_flattened' = FALSE
    /\ UNCHANGED <<files_vars, clock, asked, seed, calls, api_call_time, fetch_vars,
                   file_exists, flattened_data, out_path, summary, call,
                   csv_calls>>
    /\ UNCHANGED <<flat_calls, proc>>

(***************************************************************************)
(* get_all_parking_data                                                    *)
(***************************************************************************)
\* a loop that ends on an empty page alone
PageEndsFetchOnEmptyOnly(n) == n = 0

\* lines 45 and 76: the loop ends on an empty page and after a short one
PageEndsFetch(n) == n = 0 \/ n < limit

\* line 38
IsSuccess(status) == status = 200

\* an offset that moves on by the records of a page less one
NextOffsetOverlapping(off) == off + limit - 1

\* line 80
NextOffset(off) == off + limit

\* a loop that asks again after a response that is no success
AfterErrorRetry == "fetch"

\* lines 81-84: a response that is no success ends the loop (break); the
\* place the fetch goes to
AfterError == "fetched"

\* a loop that gives up after two requests
LoopConditionTwoRequests(reqs) == Len(reqs) < 2

\* line 28: while True, whatever was requested so far
LoopCondition(reqs) == TRUE

\* a collection that keeps the latest page alone
ExtendReplacing(all, batch_data) == batch_data

\* line 70: all_data.extend(batch_data)
Extend(all, batch_data) == all \o batch_data

\* an error branch that throws away what was collected
RollbackOnError(all) == <<>>

\* lines 81-84: the error branch leaves the records collected so far alone
KeepOnError(all) == all

\* the lengths of the pages the API serves
PageLens == {0, 1, limit - 1, limit}

\* lines 204-209 / 295-299 and 22-26: the call time is taken and the fetch begins
RunStart ==
    /\ pc = "run_start"
    /\ api_call_time' = Strftime(FromClock(clock))
    /\ seed' = asked
    /\ offset' = 0
    /\ all_data' = <<>>
    /\ requests' = <<>>
    /\ responses' = <<>>
    /\ pc' = "fetch"
    /\ UNCHANGED <<files_vars, clock, asked, calls, RUN_GITHUB, file_exists,
                   flattened_data, out_path, summary, loop_vars, call,
                   csv_calls>>
    /\ UNCHANGED <<flat_vars, proc>>

\* lines 28-84: one pass of the loop, the request and the handling of the
\* response (its status, and the n records of its page)
FetchPage(status, n) ==
    /\ pc = "fetch"
    /\ asked < MaxRequests
    /\ n = limit => asked + 1 < MaxRequests
    /\ ~IsSuccess(status) => n = 0
    /\ IF ~LoopCondition(requests)
       THEN /\ pc' = "fetched"
            /\ UNCHANGED <<asked, fetch_vars>>
       ELSE /\ asked' = asked + 1
            /\ requests' = Append(requests, [limit |-> limit, offset |-> offset])
            /\ responses' = Append(responses, [status |-> status, n |-> n])
            /\ IF IsSuccess(status)
               THEN /\ all_data' = Extend(all_data, Page(offset, n, seed))
                    /\ IF PageEndsFetch(n)
                       THEN pc' = "fetched" /\ offset' = offset
                       ELSE pc' = "fetch" /\ offset' = NextOffset(offset)
               ELSE /\ all_data' = KeepOnError(all_data)
                    /\ offset' = offset
                    /\ pc' = AfterError
    /\ UNCHANGED <<files_vars, clock, seed, calls, RUN_GITHUB,
                   api_call_time, file_exists, flattened_data, out_path,
                   summary, loop_vars, call, csv_calls>>
    /\ UNCHANGED <<flat_vars, proc>>

(***************************************************************************)
(* run_once and save_to_csv, step by step                                  *)
(***************************************************************************)
\* a driver with no test for an empty fetch
NoDataNever(data) == FALSE

\* lines 214 and 302: the test of both drivers for an empty fetch
NoData(data) == data = <<>>

\* the locals of a finished run go out of scope
EndRun ==
    /\ api_call_time' = <<>>
    /\ offset' = 0
    /\ all_data' = <<>>
    /\ requests' = <<>>
    /\ responses' = <<>>
    /\ file_exists' = FALSE
    /\ flattened_data' = <<>>

\* lines 86-87, 211-215 and 156-181: the fetch returns; run_once saves what
\* it got, if anything; save_to_csv flattens and looks whether the file exists
RunOnceSave ==
    /\ pc = "fetched"
    /\ ~RUN_GITHUB
    /\ IF NoData(all_data)
       THEN /\ pc' = "next_run"
            /\ completed' = completed + 1
            /\ call' = NoCall
            /\ EndRun
            /\ UNCHANGED <<printed_debug, printed_flattened>>
       ELSE /\ call' = [sink |-> "csv", n |-> Len(all_data),
                        fresh |-> ~IsFile(fs, CSV_FILE)]
            /\ IF CsvSkips(all_data)
               THEN /\ pc' = "summary"
                    /\ UNCHANGED <<flattened_data, file_exists, printed_debug,
                                   printed_flattened>>
               ELSE /\ flattened_data' = FlattenAll(all_data, Str(api_call_time))
                    /\ file_exists' = IsFile(fs, CSV_FILE)
                    /\ printed_debug' = TRUE
                    /\ printed_flattened' = TRUE
                    /\ pc' = "csv_open"
            /\ UNCHANGED <<api_call_time, fetch_vars, completed>>
    /\ UNCHANGED <<files_vars, clock, asked, seed, calls, RUN_GITHUB, out_path,
                   summary, iteration, logged, exit, csv_calls>>
    /\ UNCHANGED <<flat_calls, proc>>

\* line 184
CsvOpen ==
    /\ pc = "csv_open"
    /\ fs' = OpenAppend(fs, CSV_FILE)
    /\ pc' = "csv_header"
    /\ UNCHANGED <<dirs, clock, asked, seed, calls, RUN_GITHUB, api_call_time,
                   fetch_vars, file_exists, flattened_data, out_path, summary,
                   loop_vars, call, csv_calls>>
    /\ UNCHANGED <<flat_vars, proc>>

\* lines 185-192
CsvHeader ==
    /\ pc = "csv_header"
    /\ fs' = CsvWriteHeader(fs, file_exists)
    /\ pc' = "csv_rows"
    /\ UNCHANGED <<dirs, clock, asked, seed, calls, RUN_GITHUB, api_call_time,
                   fetch_vars, file_exists, flattened_data, out_path, summary,
                   loop_vars, call, csv_calls>>
    /\ UNCHANGED <<flat_vars, proc>>

\* lines 195-197: the rows are written, the file is closed, save_to_csv returns
CsvRows ==
    /\ pc = "csv_rows"
    /\ fs' = CsvWriteRows(fs, flattened_data)
    /\ pc' = "summary"
    /\ UNCHANGED <<dirs, clock, asked, seed, calls, RUN_GITHUB, api_call_time,
                   fetch_vars, file_exists, flattened_data, out_path, summary,
                   loop_vars, call, csv_calls>>
    /\ UNCHANGED <<flat_vars, proc>>

\* lines 217-234: the summary; run_once returns
RunOnceSummary ==
    /\ pc = "summary"
    /\ summary' = Summary(all_data)
    /\ completed' = completed + 1
    /\ pc' = "next_run"
    /\ EndRun
    /\ UNCHANGED <<files_vars, clock, asked, seed, calls, RUN_GITHUB, out_path,
                   iteration, logged, exit, call, csv_calls>>
    /\ UNCHANGED <<flat_vars, proc>>

(***************************************************************************)
(* run_continuously                                                        *)
(***************************************************************************)
\* line 264: the minute field handed to datetime.replace
NextRunMinute(dt, interval_minutes) == dt.minute + interval_minutes

\* datetime.replace(minute=m) raises ValueError unless m is in 0..59
ValidMinute(m) == m \in 0..59

\* lines 253-259: the loop begins another iteration and calls run_once
LoopTop ==
    /\ pc = "loop_top"
    /\ asked < MaxRequests
    /\ pc' = "run_start"
    /\ UNCHANGED <<files_vars, clock, asked, seed, calls, RUN_GITHUB,
                   api_call_time, fetch_vars, file_exists, flattened_data,
                   out_path, summary, loop_vars, call, csv_calls>>
    /\ UNCHANGED <<flat_vars, proc>>

\* lines 261-267: the next run time is computed for display; the ValueError
\* of datetime.replace is caught nowhere and ends the process
NextRun ==
    /\ pc = "next_run"
    /\ IF ValidMinute(NextRunMinute(FromClock(clock), INTERVAL_MINUTES))
       THEN pc' = "sleep" /\ exit' = exit
       ELSE pc' = "idle" /\ exit' = "ValueError"
    /\ UNCHANGED <<files_vars, clock, asked, seed, calls, RUN_GITHUB,
                   api_call_time, fetch_vars, file_exists, flattened_data,
                   out_path, summary, iteration, completed, logged, call,
                   csv_calls>>
    /\ UNCHANGED <<flat_vars, proc>>

\* lines 269-272: the sleep runs to its end and the iteration is counted
Sleep ==
    /\ pc = "sleep"
    /\ clock' = clock + INTERVAL_MINUTES * 60
    /\ iteration' = iteration + 1
    /\ pc' = "loop_top"
    /\ UNCHANGED <<files_vars, asked, seed, calls, RUN_GITHUB, api_call_time,
                   fetch_vars, file_exists, flattened_data, out_path, summary,
                   completed, logged, exit, call, csv_calls>>
    /\ UNCHANGED <<flat_vars, proc>>

\* line 276: the number printed after "Total iterations completed"
IterationsCompleted(iter) == iter - 1

\* the places of the continuous process, all inside the try of line 251
LocalPlaces ==
    {"loop_top", "run_start", "fetch", "fetched", "csv_open", "csv_header",
     "csv_rows", "summary", "next_run", "sleep"}

\* lines 274-277: Ctrl+C anywhere in the loop; an open CSV file is closed by
\* its with block, what was written stays
Interrupt ==
    /\ ~RUN_GITHUB
    /\ pc \in LocalPlaces
    /\ logged' = IterationsCompleted(iteration)
    /\ exit' = "interrupt"
    /\ pc' = "idle"
    /\ EndRun
    /\ UNCHANGED <<files_vars, clock, asked, seed, calls, RUN_GITHUB, out_path,
                   summary, iteration, completed, call, csv_calls>>
    /\ UNCHANGED <<flat_vars, proc>>

(***************************************************************************)
(* run_once_write_jsonl and save_to_jsonl_gz, step by step                 *)
(***************************************************************************)
\* lines 86-87 and 301-307: the fetch returns; with no data the run ends,
\* otherwise the records are flattened
JsonlFlatten ==
    /\ pc = "fetched"
    /\ RUN_GITHUB
    /\ IF NoData(all_data)
       THEN /\ pc' = "idle"
            /\ exit' = "normal"
            /\ call' = NoCall
            /\ EndRun
            /\ UNCHANGED <<printed_debug, printed_flattened>>
       ELSE /\ flattened_data' = FlattenAll(all_data, Str(api_call_time))
            /\ printed_debug' = TRUE
            /\ printed_flattened' = TRUE
            /\ pc' = "gz_open"
            /\ UNCHANGED <<api_call_time, fetch_vars, file_exists, exit, call>>
    /\ UNCHANGED <<files_vars, clock, asked, seed, calls, RUN_GITHUB, out_path,
                   summary, iteration, completed, logged, csv_calls>>
    /\ UNCHANGED <<flat_calls, proc>>

\* lines 282-288: the path, the directories, the open in append mode
GzOpen ==
    /\ pc = "gz_open"
    /\ out_path' = OutPath(api_call_time)
    /\ dirs' = Mkdir(dirs, OutDir(api_call_time))
    /\ fs' = GzipOpenAppend(fs, OutPath(api_call_time))
    /\ call' = [sink |-> "gz", n |-> Len(flattened_data),
                fresh |-> ~IsFile(fs, OutPath(api_call_time))]
    /\ pc' = "gz_write"
    /\ UNCHANGED <<clock, asked, seed, calls, RUN_GITHUB, api_call_time,
                   fetch_vars, file_exists, flattened_data, summary, loop_vars,
                   csv_calls>>
    /\ UNCHANGED <<flat_vars, proc>>

\* lines 289-292: the lines are written, the file is closed, the path returned
GzWrite ==
    /\ pc = "gz_write"
    /\ fs' = GzWriteRows(fs, out_path, flattened_data)
    /\ pc' = "gz_done"
    /\ UNCHANGED <<dirs, clock, asked, seed, calls, RUN_GITHUB, api_call_time,
                   fetch_vars, file_exists, flattened_data, out_path, summary,
                   loop_vars, call, csv_calls>>
    /\ UNCHANGED <<flat_vars, proc>>

\* lines 312-327 and 336: the summary; the process ends
JsonlSummary ==
    /\ pc = "gz_done"
    /\ summary' = Summary(all_data)
    /\ exit' = "normal"
    /\ pc' = "idle"
    /\ EndRun
    /\ UNCHANGED <<files_vars, clock, asked, seed, calls, RUN_GITHUB, out_path,
                   iteration, completed, logged, call, csv_calls>>
    /\ UNCHANGED <<flat_vars, proc>>

(***************************************************************************)
(* The program: process runs one after the other, in either mode.          *)
(***************************************************************************)
Next ==
    \/ \E github \in BOOLEAN : Start(github)
    \/ RunStart
    \/ \E status \in {200, 500}, n \in PageLens : FetchPage(status, n)
    \/ RunOnceSave
    \/ CsvOpen
    \/ CsvHeader
    \/ CsvRows
    \/ RunOnceSummary
    \/ LoopTop
    \/ NextRun
    \/ Sleep
    \/ Interrupt
    \/ JsonlFlatten
    \/ GzOpen
    \/ GzWrite
    \/ JsonlSummary

Spec == Init /\ [][Next]_vars

\* the request of line 36 blocks until the API has answered, and the API
\* answers every request: the loop body is taken whenever the loop is in it
SpecLive ==
    Spec /\ WF_vars(\E status \in {200, 500}, n \in PageLens : FetchPage(status, n))

(***************************************************************************)
(* The sinks called directly, one whole call after the other, with any     *)
(* records (none included) and any call time.                              *)
(***************************************************************************)
\* direct sink calls made in all
MaxCalls == 2
\* the most records handed to one direct sink call
MaxRows == 3

\* the call times tried: 05:07:00, 05:07:59 and 23:08:00
SinkClocks == {5 * 3600 + 7 * 60, 5 * 3600 + 7 * 60 + 59, 23 * 3600 + 8 * 60}

\* the record lists tried: up to MaxRows records, every shape among them
SinkData == {Page(0, n, sd) : n \in 0..MaxRows, sd \in {0, 3}}

CallSaveToCsv(data, c) ==
    /\ calls < MaxCalls
    /\ calls' = calls + 1
    /\ api_call_time' = Strftime(FromClock(c))
    /\ fs' = save_to_csv(fs, data, Str(api_call_time'))
    /\ call' = [sink |-> "csv", n |-> Len(data), fresh |-> ~IsFile(fs, CSV_FILE)]
    /\ csv_calls' = Append(csv_calls, [data |-> data, t |-> Str(api_call_time')])
    /\ UNCHANGED <<dirs, clock, asked, seed, pc, RUN_GITHUB, fetch_vars, file_exists,
                   flattened_data, out_path, summary, loop_vars>>
    /\ printed_debug' = (printed_debug \/ ~CsvSkips(data))
    /\ printed_flattened' = (printed_flattened \/ ~CsvSkips(data))
    /\ UNCHANGED <<flat_calls, proc>>

CallSaveToJsonlGz(data, c) ==
    /\ calls < MaxCalls
    /\ calls' = calls + 1
    /\ api_call_time' = Strftime(FromClock(c))
    /\ flattened_data' = FlattenAll(data, Str(api_call_time'))
    /\ out_path' = OutPath(api_call_time')
    /\ dirs' = Mkdir(dirs, OutDir(api_call_time'))
    /\ fs' = save_to_jsonl_gz(fs, flattened_data', api_call_time')
    /\ call' = [sink |-> "gz", n |-> Len(data), fresh |-> ~IsFile(fs, out_path')]
    /\ UNCHANGED <<clock, asked, seed, pc, RUN_GITHUB, fetch_vars, file_exists,
                   summary, loop_vars, csv_calls>>
    /\ printed_debug' = (printed_debug \/ data # <<>>)
    /\ printed_flattened' = (printed_flattened \/ data # <<>>)
    /\ UNCHANGED <<flat_calls, proc>>

NextSinks ==
    \/ \E data \in SinkData, c \in SinkClocks : CallSaveToCsv(data, c)
    \/ \E data \in SinkData, c \in SinkClocks : CallSaveToJsonlGz(data, c)

SpecSinks == Init /\ [][NextSinks]_vars

(***************************************************************************)
(* flatten_record called directly, one call after the other in one         *)
(* process, with raw records of every form: the wrapper with or without    *)
(* `record`, with or without `fields`, the fields all there or few, the     *)
(* location absent, a mapping (whole, partial, empty) or no mapping.        *)
(***************************************************************************)
\* direct flatten_record calls made in all
MaxFlatCalls == 2

\* the call times tried
FlatTimes == {"2024-03-01 05:07:00", "2024-03-01 05:08:00"}

\* the forms of the record tried
FlatKinds == {"full", "sparse", "nofields", "norecord"}

\* the locations tried; <<"absent">> stands for a fields mapping without the key
FlatLocations ==
    { <<"absent">>,
      <<"dict", [lon |-> <<"num", 144>>, lat |-> <<"num", 37>>]>>,
      <<"dict", [lon |-> <<"num", 145>>]>>,
      <<"dict", [lat |-> <<"str", "-37.8">>]>>,
      <<"dict", <<>>>>,
      <<"null">>,
      <<"str", "unknown">>,
      <<"num", 7>> }

\* the scalar fields a record of a form carries
FlatScalars(kind) ==
    CASE kind = "full" ->
           [lastupdated        |-> <<"str", "2024-03-01T05:00:00+00:00">>,
            status_timestamp   |-> <<"str", "2024-03-01T04:59:00+00:00">>,
            zone_number        |-> <<"num", 7303>>,
            status_description |-> <<"str", "Present">>,
            kerbsideid         |-> <<"str", "51614">>]
      [] kind = "sparse" ->
           [zone_number |-> <<"null">>,
            kerbsideid  |-> <<"num", 51614>>]
      [] OTHER -> <<>>

\* the raw record of a form and a location
FlatRecord(kind, loc) ==
    LET fields == IF loc = <<"absent">> THEN FlatScalars(kind)
                  ELSE FlatScalars(kind) @@ ("location" :> loc)
    IN  CASE kind \in {"full", "sparse"} ->
               <<"dict", [record |-> <<"dict", [id     |-> <<"str", "r">>,
                                                fields |-> <<"dict", fields>>]>>]>>
          [] kind = "nofields" ->
               <<"dict", [record |-> <<"dict", [id |-> <<"str", "r">>]>>]>>
          [] OTHER ->
               <<"dict", [links |-> <<"str", "r">>]>>

\* lines 90-145: one call flatten_record(record, api_call_time)
CallFlatten(kind, loc, t) ==
    /\ Len(flat_calls) < MaxFlatCalls
    /\ kind \in {"nofields", "norecord"} => loc = <<"absent">>
    /\ flat_calls' =
         Append(flat_calls,
                [kind |-> kind, loc |-> loc, t |-> t,
                 record  |-> FlatRecord(kind, loc),
                 printed |-> FlattenPrints(printed_debug, printed_flattened),
                 result  |-> FlattenReturns(FlatRecord(kind, loc), t,
                                            printed_debug, printed_flattened)])
    /\ printed_debug' = TRUE
    /\ printed_flattened' = TRUE
    /\ UNCHANGED <<files_vars, clock, asked, seed, calls, pc, RUN_GITHUB,
                   api_call_time, fetch_vars, file_exists, flattened_data,
                   out_path, summary, loop_vars, call, csv_calls, proc>>

NextFlatten ==
    \E kind \in FlatKinds, loc \in FlatLocations, t \in FlatTimes :
        CallFlatten(kind, loc, t)

SpecFlatten == Init /\ [][NextFlatten]_vars

(***************************************************************************)
(* save_to_csv called by two processes at the same time, each once, on     *)
(* the same file: their steps interleave in any order.  What a process     *)
(* writes goes to the buffer of its file object and reaches the file when  *)
(* the buffer is flushed, at the latest when the with block closes the     *)
(* file; the file being open in append mode, flushed lines go to its end.  *)
(***************************************************************************)
\* the call time of the concurrent calls: 05:58:30
ProcTime == Str(Strftime(FromClock(StartClock)))

\* the processes that have opened the file
Opened == {q \in Procs : proc[q].pc \in {"header", "rows", "close", "done"}
                            /\ proc[q].flattened_data # <<>>}

ProcUnchanged ==
    UNCHANGED <<dirs, clock, asked, seed, calls, pc, RUN_GITHUB, api_call_time,
                fetch_vars, file_exists, flattened_data, out_path, summary,
                loop_vars, call, csv_calls, flat_vars>>

\* lines 156-166: the call; nothing is done with no data, otherwise the
\* records are flattened
ProcCall(p, data) ==
    /\ proc[p].pc = "none"
    /\ proc' = [proc EXCEPT ![p] =
                  IF CsvSkips(data) THEN [@ EXCEPT !.pc = "done"]
                  ELSE [@ EXCEPT !.pc = "isfile",
                                 !.flattened_data = FlattenAll(data, ProcTime)]]
    /\ fs' = fs
    /\ ProcUnchanged

\* line 181: file_exists = os.path.isfile(CSV_FILE)
ProcIsFile(p) ==
    /\ proc[p].pc = "isfile"
    /\ proc' = [proc EXCEPT ![p] = [@ EXCEPT !.pc = "open",
                                             !.file_exists = IsFile(fs, CSV_FILE),
                                             !.saw = Opened]]
    /\ fs' = fs
    /\ ProcUnchanged

\* line 184: the open in append mode
ProcOpen(p) ==
    /\ proc[p].pc = "open"
    /\ fs' = OpenAppend(fs, CSV_FILE)
    /\ proc' = [proc EXCEPT ![p] = [@ EXCEPT !.pc = "header"]]
    /\ ProcUnchanged

\* lines 185-192: the header, if the file was found absent
ProcHeader(p) ==
    /\ proc[p].pc = "header"
    /\ proc' = [proc EXCEPT ![p] =
                  [@ EXCEPT !.pc = "rows",
                            !.buffer = IF WritesHeader(proc[p].file_exists)
                                       THEN @ \o <<CsvHeaderLine>> ELSE @]]
    /\ fs' = fs
    /\ ProcUnchanged

\* line 195: the rows
ProcRows(p) ==
    /\ proc[p].pc = "rows"
    /\ proc' = [proc EXCEPT ![p] =
                  [@ EXCEPT !.pc = "close",
                            !.buffer = @ \o CsvRowLines(proc[p].flattened_data)]]
    /\ fs' = fs
    /\ ProcUnchanged

\* the buffer is flushed before the file is closed
ProcFlush(p) ==
    /\ proc[p].pc \in {"rows", "close"}
    /\ proc[p].buffer # <<>>
    /\ fs' = WriteLines(fs, CSV_FILE, proc[p].buffer)
    /\ proc' = [proc EXCEPT ![p] = [@ EXCEPT !.buffer = <<>>]]
    /\ ProcUnchanged

\* lines 184-197: the with block ends, the file is flushed and closed
ProcClose(p) ==
    /\ proc[p].pc = "close"
    /\ fs' = WriteLines(fs, CSV_FILE, proc[p].buffer)
    /\ proc' = [proc EXCEPT ![p] = [@ EXCEPT !.pc = "done", !.buffer = <<>>]]
    /\ ProcUnchanged

NextConcurrent ==
    \E p \in Procs :
        \/ \E data \in SinkData : ProcCall(p, data)
        \/ ProcIsFile(p)
        \/ ProcOpen(p)
        \/ ProcHeader(p)
        \/ ProcRows(p)
        \/ ProcFlush(p)
        \/ ProcClose(p)

SpecConcurrent == Init /\ [][NextConcurrent]_vars

(***************************************************************************)
(* Properties.                                                             *)
(***************************************************************************)
\* a response that is a success with a full page
FullPage(r) == r.status = 200 /\ r.n = limit

\* the pages of the first m responses of the running fetch, one after the other
PagesReceived(m) ==
    Concat([i \in 1..m |->
              IF responses[i].status = 200
              THEN Page(requests[i].offset, responses[i].n, seed)
              ELSE <<>>])

\* C1: in every fetch, every request but the last was answered with a full
\* page of 100 records (no request follows an empty page, a shorter page or
\* a failure); while the loop goes on every response so far was a full page,
\* and when it has ended the last response was not: each full page is
\* followed by exactly one further request.
C1_StopsAtFirstShortPage ==
    /\ Len(requests) = Len(responses)
    /\ \A i \in 1..Len(responses) :
          i < Len(responses) => FullPage(responses[i])
    /\ pc = "fetch" => \A i \in 1..Len(responses) : FullPage(responses[i])
    /\ pc = "fetched" =>
          /\ Len(responses) >= 1
          /\ ~FullPage(responses[Len(responses)])
          /\ Len(requests) =
               Cardinality({i \in 1..Len(responses) : FullPage(responses[i])}) + 1

\* C1 witness: a fetch ended by a non-empty page of 99 records that followed
\* a full page
C1_Witness ==
    /\ pc = "fetched"
    /\ Len(responses) = 2
    /\ FullPage(responses[1])
    /\ responses[2] = [status |-> 200, n |-> limit - 1]

\* C2: the step that receives a non-success response adds no record and ends
\* the loop; once the loop has ended no further request is made; and the
\* list returned after a failure is exactly the pages of the earlier
\* responses, in order.
C2_FailureStopsAndKeeps ==
    /\ [][(pc = "fetch" /\ Len(responses') = Len(responses) + 1
             /\ responses'[Len(responses')].status # 200)
            => (all_data' = all_data /\ pc' = "fetched")]_vars
    /\ [][pc = "fetched" => (requests' = requests \/ requests' = <<>>)]_vars
    /\ [](pc = "fetched" /\ responses[Len(responses)].status # 200
            => all_data = PagesReceived(Len(responses) - 1))

\* C2 witness: a fetch ended by a failed second request, the first page kept
C2_Witness ==
    /\ pc = "fetched"
    /\ Len(responses) = 2
    /\ responses[2].status = 500
    /\ Len(all_data) = limit
    /\ all_data = Page(0, limit, seed)

\* the lines read back from a file: a text file's lines, a gzip file's
\* members' lines
Lines(files, path) ==
    IF path = CSV_FILE THEN files[path] ELSE GzipReadLines(files, path)

IsPrefix(a, b) == Len(a) <= Len(b) /\ SubSeq(b, 1, Len(a)) = a

\* the data rows all direct save_to_csv calls so far should have written
CsvExpectedRows ==
    Concat([i \in 1..Len(csv_calls) |->
              CsvRowLines(FlattenAll(csv_calls[i].data, csv_calls[i].t))])

\* C3: after any sequence of whole save_to_csv calls on a file absent at the
\* start: while no call had a record the file does not exist; otherwise it
\* holds the header line once, as its first line, followed by one row per
\* record of every call, in call order (a call with M records adds M lines
\* and no header).
C3_OneHeaderThenRows ==
    LET n == Len(Concat([i \in 1..Len(csv_calls) |-> csv_calls[i].data]))
        header == "api_call_time,lastupdated,status_timestamp,zone_number,"
                    \o "status_description,kerbsideid,location_lon,location_lat"
    IN  IF n = 0 THEN ~IsFile(fs, CSV_FILE)
        ELSE /\ IsFile(fs, CSV_FILE)
             /\ Len(fs[CSV_FILE]) = 1 + n
             /\ fs[CSV_FILE][1] = header
             /\ \A i \in 2..Len(fs[CSV_FILE]) : fs[CSV_FILE][i] # header
             /\ Tail(fs[CSV_FILE]) = CsvExpectedRows

\* C3 witness: two calls with records have been made, the second onto the
\* file the first created
C3_Witness ==
    /\ Len(csv_calls) = 2
    /\ csv_calls[1].data # <<>>
    /\ csv_calls[2].data # <<>>
    /\ Len(fs[CSV_FILE]) = 1 + Len(csv_calls[1].data) + Len(csv_calls[2].data)

\* a step that is a direct sink call with zero records
ZeroRecordCall == calls' = calls + 1 /\ call'.n = 0

\* C4 as claimed: a call of either sink with zero records changes nothing in
\* the file system.
C4_BothSinksNoOp ==
    [][ZeroRecordCall => (fs' = fs /\ dirs' = dirs)]_vars

\* C4 amended: save_to_csv with zero records changes nothing in the file
\* system; save_to_jsonl_gz with zero records writes no line and keeps the
\* lines of every existing file, but creates the snapshot's directories and,
\* when the snapshot file is absent, an empty snapshot file.
C4_CsvNoOpGzWritesNoLine ==
    [][ZeroRecordCall =>
         IF call'.sink = "csv"
         THEN fs' = fs /\ dirs' = dirs
         ELSE /\ DOMAIN fs' = DOMAIN fs \cup {out_path'}
              /\ \A p \in DOMAIN fs : Lines(fs', p) = Lines(fs, p)
              /\ ~IsFile(fs, out_path') => Lines(fs', out_path') = <<>>
              /\ dirs' = dirs \cup {SubSeq(out_path', 1, i) : i \in 1..3}]_vars

\* C4 witness: save_to_jsonl_gz was called with zero records for a snapshot
\* that did not exist, and the snapshot file now exists, empty
C4_Witness ==
    /\ call = [sink |-> "gz", n |-> 0, fresh |-> TRUE]
    /\ IsFile(fs, out_path)
    /\ Lines(fs, out_path) = <<>>

\* C5: while a run holds no fetched record (before its fetch has returned
\* any, and after a fetch that returned none) no step of it changes the file
\* system, and a fetch that returned none is followed at once by the end of
\* the run.
C5_EmptyFetchLeavesFiles ==
    [][(pc # "idle" /\ all_data = <<>>) =>
          /\ fs' = fs /\ dirs' = dirs
          /\ pc = "fetched" => pc' \in {"next_run", "idle"}]_vars

\* C5 witness: a run_once whose fetch returned nothing has returned, with a
\* CSV file in place from an earlier run
C5_Witness ==
    /\ ~RUN_GITHUB
    /\ pc = "next_run"
    /\ call = NoCall
    /\ completed >= 1
    /\ IsFile(fs, CSV_FILE)

\* C6: no step removes a file, and the lines of every file before a step are
\* a prefix of its lines after it.
C6_AppendOnly ==
    [][\A p \in DOMAIN fs :
          p \in DOMAIN fs' /\ IsPrefix(Lines(fs, p), Lines(fs', p))]_vars

\* C6 witness: save_to_csv has written its rows after the lines of a file
\* that existed already
C6_Witness ==
    /\ pc = "summary"
    /\ call.sink = "csv"
    /\ ~call.fresh
    /\ Len(fs[CSV_FILE]) > 1 + call.n

\* C7: save_to_jsonl_gz on a snapshot file that exists: opening it keeps its
\* lines, and after the write its lines are the earlier lines followed by
\* the new ones.
C7_SameMinuteAppends ==
    [][/\ (pc = "gz_open" /\ IsFile(fs, OutPath(api_call_time))) =>
            Lines(fs', OutPath(api_call_time)) = Lines(fs, OutPath(api_call_time))
       /\ (pc = "gz_write" /\ pc' = "gz_done") =>
            Lines(fs', out_path) = Lines(fs, out_path) \o JsonLines(flattened_data)]_vars

\* C7 witness: a second run of the same minute has written its lines after
\* those of the first
C7_Witness ==
    /\ pc = "gz_done"
    /\ ~call.fresh
    /\ Len(fs[out_path]) = 2
    /\ fs[out_path][1] # <<>>
    /\ fs[out_path][2] # <<>>
    /\ Len(Lines(fs, out_path)) = Len(fs[out_path][1]) + call.n

\* C8: after a whole call of save_to_jsonl_gz the path is
\* data/raw/<YYYY-MM-DD>/<HHMM>.jsonl.gz of the call time, seconds dropped
\* (data/raw/2024-03-01/0507.jsonl.gz for 2024-03-01 05:07:00 and for
\* 2024-03-01 05:07:59), and on a path that was fresh the file holds one
\* line per record, in input order, each parsing back to the flattened
\* mapping it was written from.
C8_PathAndRoundTrip ==
    call.sink = "gz" =>
      LET dt == [year   |-> Number(SubSeq(api_call_time, 1, 4)),
                 month  |-> Number(SubSeq(api_call_time, 6, 7)),
                 day    |-> Number(SubSeq(api_call_time, 9, 10)),
                 hour   |-> Number(SubSeq(api_call_time, 12, 13)),
                 minute |-> Number(SubSeq(api_call_time, 15, 16))]
          lines == Lines(fs, out_path)
      IN  /\ out_path = <<"data", "raw",
                          Str(Pad4(dt.year) \o <<"-">> \o Pad2(dt.month)
                                \o <<"-">> \o Pad2(dt.day)),
                          Str(Pad2(dt.hour) \o Pad2(dt.minute)) \o ".jsonl.gz">>
          /\ Str(api_call_time) \in {"2024-03-01 05:07:00", "2024-03-01 05:07:59"}
                => out_path = <<"data", "raw", "2024-03-01", "0507.jsonl.gz">>
          /\ call.fresh =>
                /\ Len(lines) = call.n
                /\ Len(lines) = Len(flattened_data)
                /\ \A i \in 1..Len(lines) : JsonLoads(lines[i]) = flattened_data[i]

\* C8 witness: three records were written at 2024-03-01 05:07:00 to the
\* fresh path data/raw/2024-03-01/0507.jsonl.gz, which now holds three lines
C8_Witness ==
    /\ call = [sink |-> "gz", n |-> 3, fresh |-> TRUE]
    /\ Str(api_call_time) = "2024-03-01 05:07:00"
    /\ out_path = <<"data", "raw", "2024-03-01", "0507.jsonl.gz">>
    /\ Len(Lines(fs, out_path)) = 3

\* C9 as claimed: a continuous process that has ended was ended by an
\* interrupt.
C9_OnlyInterruptEndsLoop ==
    (~RUN_GITHUB /\ pc = "idle" /\ exit # "none") => exit = "interrupt"

\* C10 as claimed: after an interrupt the number printed as iterations
\* completed is the number of run_once calls that returned.
C10_LoggedEqualsCompleted ==
    (pc = "idle" /\ exit = "interrupt") => logged = completed

\* the running fetch was ended by a failed request that followed at least
\* one page
FailedMidway ==
    /\ Len(responses) >= 2
    /\ responses[Len(responses)].status # 200

\* what a run that failed midway has to persist: the flattened records of
\* the pages received before the failure
FlattenedBeforeFailure ==
    FlattenAll(PagesReceived(Len(responses) - 1), Str(api_call_time))

\* a step of the run itself, not the Ctrl+C that may end a continuous process
RunStep == ~(exit' = "interrupt" /\ exit # "interrupt")

\* C11: a run whose fetch was ended by a failed request after k >= 1 pages
\* goes on to its sink with the flattened records of those pages (all of
\* them full pages), writes exactly one line per such record after the lines
\* already there (and a header before them on a new CSV file only), logs the
\* summary of these records and returns normally; no further request is made.
C11_PartialFetchPersisted ==
    [][(FailedMidway /\ RunStep) =>
         /\ Len(all_data) = (Len(responses) - 1) * limit
         /\ pc = "fetched" =>
              /\ pc' = IF RUN_GITHUB THEN "gz_open" ELSE "csv_open"
              /\ flattened_data' = FlattenedBeforeFailure
         /\ pc = "csv_open" =>
              /\ pc' = "csv_header"
              /\ Lines(fs', CSV_FILE) =
                   IF IsFile(fs, CSV_FILE) THEN Lines(fs, CSV_FILE) ELSE <<>>
         /\ pc = "csv_header" =>
              /\ pc' = "csv_rows"
              /\ Lines(fs', CSV_FILE) =
                   IF call.fresh THEN <<CsvHeaderLine>> ELSE Lines(fs, CSV_FILE)
         /\ pc = "csv_rows" =>
              /\ pc' = "summary"
              /\ Lines(fs', CSV_FILE) =
                   Lines(fs, CSV_FILE) \o CsvRowLines(FlattenedBeforeFailure)
         /\ pc = "summary" =>
              /\ pc' = "next_run"
              /\ completed' = completed + 1
              /\ summary'.total = (Len(responses) - 1) * limit
              /\ fs' = fs
         /\ pc = "gz_open" =>
              /\ pc' = "gz_write"
              /\ Lines(fs', out_path') =
                   IF call'.fresh THEN <<>> ELSE Lines(fs, out_path')
         /\ pc = "gz_write" =>
              /\ pc' = "gz_done"
              /\ Lines(fs', out_path) =
                   Lines(fs, out_path) \o JsonLines(FlattenedBeforeFailure)
         /\ pc = "gz_done" =>
              /\ pc' = "idle"
              /\ exit' = "normal"
              /\ summary'.total = (Len(responses) - 1) * limit
              /\ fs' = fs
         /\ requests' \in {requests, <<>>}]_vars

\* C11 witness: the single-shot run whose second request failed has written
\* the 100 records of its first page to a new snapshot file
C11_Witness ==
    /\ RUN_GITHUB
    /\ pc = "gz_done"
    /\ Len(responses) = 2
    /\ responses[1] = [status |-> 200, n |-> limit]
    /\ responses[2].status = 500
    /\ call = [sink |-> "gz", n |-> limit, fresh |-> TRUE]
    /\ Len(Lines(fs, out_path)) = limit

\* C12: any two direct calls of flatten_record with the same raw record and
\* the same call time returned the same mapping, whatever was called in
\* between and although the first call of the process finds the two function
\* attributes unset (and prints its debug blocks) and the later ones find
\* them set (and print nothing).
C12_FlattenDeterministic ==
    /\ \A i, j \in 1..Len(flat_calls) :
          (flat_calls[i].record = flat_calls[j].record
             /\ flat_calls[i].t = flat_calls[j].t)
            => flat_calls[i].result = flat_calls[j].result
    /\ \A i \in 1..Len(flat_calls) :
          Len(flat_calls[i].printed) = IF i = 1 THEN 2 ELSE 0
    /\ flat_calls # <<>> => printed_debug /\ printed_flattened

\* C12 witness: the same record was flattened twice with the same call time,
\* first with the attributes unset, then with them set
C12_Witness ==
    /\ Len(flat_calls) = 2
    /\ flat_calls[1].kind = "full"
    /\ flat_calls[1].record = flat_calls[2].record
    /\ flat_calls[1].t = flat_calls[2].t
    /\ flat_calls[1].printed # flat_calls[2].printed
    /\ flat_calls[1].result = flat_calls[2].result

\* the location the flattener should find in a record of a form
ExpectedLocation(kind, loc, key) ==
    IF kind \in {"nofields", "norecord"} \/ loc = <<"absent">> THEN <<"str", "">>
    ELSE IF loc[1] # "dict" THEN <<"str", "">>
    ELSE IF key \in DOMAIN loc[2] THEN loc[2][key]
    ELSE <<"str", "">>

\* C13: every flatten_record call returned location_lon = "" and
\* location_lat = "" for a record without a location (or without fields, or
\* without record) and for a location that is no mapping (null, a string, a
\* number); for a location that is a mapping it returned the mapping's lon
\* and lat, each "" when the mapping lacks the key.
C13_LocationFlattened ==
    \A i \in 1..Len(flat_calls) :
        LET c == flat_calls[i] IN
        /\ Lookup(c.result, "location_lon", <<"none">>) =
              ExpectedLocation(c.kind, c.loc, "lon")
        /\ Lookup(c.result, "location_lat", <<"none">>) =
              ExpectedLocation(c.kind, c.loc, "lat")
        /\ (c.loc = <<"absent">> \/ c.loc[1] # "dict") =>
              /\ Lookup(c.result, "location_lon", <<"none">>) = <<"str", "">>
              /\ Lookup(c.result, "location_lat", <<"none">>) = <<"str", "">>

\* C13 witness: a location that is a string and a location that is a mapping
\* with lat alone have been flattened
C13_Witness ==
    /\ Len(flat_calls) = 2
    /\ flat_calls[1].kind = "full"
    /\ flat_calls[1].loc = <<"str", "unknown">>
    /\ Lookup(flat_calls[1].result, "location_lon", <<"none">>) = <<"str", "">>
    /\ flat_calls[2].loc = <<"dict", [lat |-> <<"str", "-37.8">>]>>
    /\ Lookup(flat_calls[2].result, "location_lon", <<"none">>) = <<"str", "">>
    /\ Lookup(flat_calls[2].result, "location_lat", <<"none">>) = <<"str", "-37.8">>

\* the scalar fields copied from `fields`
ScalarNames ==
    <<"lastupdated", "status_timestamp", "zone_number", "status_description",
      "kerbsideid">>

ServedWithShape(shape) ==
    Cardinality({i \in 1..Len(all_data) : (i - 1 + seed) % 6 = shape})

\* C14: the summary printed by either driver gives as total the number of
\* fetched records, as occupied the number of them served with the status
\* "Present" and as unoccupied the number served with "Unoccupied"; records
\* with another status ("Other", "present") or none are in neither count, so
\* occupied + unoccupied <= total.  For the statuses Present, Present,
\* Unoccupied, Other the counts are 2 and 1.
C14_OccupancyTally ==
    /\ [][(pc \in {"summary", "gz_done"} /\ RunStep) =>
            /\ summary'.total = Len(all_data)
            /\ summary'.occupied = ServedWithShape(0)
            /\ summary'.unoccupied = ServedWithShape(1)
            /\ summary'.occupied + summary'.unoccupied <= summary'.total]_vars
    /\ [](Summary(<<RawRecord(0, 0), RawRecord(6, 0), RawRecord(1, 0),
                    RawRecord(2, 0)>>)
            = [total |-> 4, occupied |-> 2, unoccupied |-> 1])
    /\ [](summary.occupied + summary.unoccupied <= summary.total)

\* C14 witness: the single-shot run has printed the summary of 99 records,
\* 17 of them occupied, 17 unoccupied and 65 neither
C14_Witness ==
    /\ RUN_GITHUB
    /\ pc = "idle"
    /\ exit = "normal"
    /\ summary = [total |-> limit - 1, occupied |-> 17, unoccupied |-> 17]

\* a step of the fetch loop that sends a request
Requests == Len(requests') = Len(requests) + 1

\* C15: every request of a fetch carries limit = 100; the first carries
\* offset 0 and each later one the offset of the one before plus 100, so the
\* offsets are 0, 100, 200, ... with none repeated and none skipped; and the
\* offset a request carries is the number of records collected when it is
\* sent.
C15_OffsetsAdvanceByLimit ==
    /\ [](\A i \in 1..Len(requests) :
             /\ requests[i].limit = 100
             /\ i = 1 => requests[i].offset = 0
             /\ i > 1 => requests[i].offset = requests[i - 1].offset + 100)
    /\ [](\A i, j \in 1..Len(requests) :
             i # j => requests[i].offset # requests[j].offset)
    /\ [][Requests =>
            /\ requests'[Len(requests')].offset = offset
            /\ requests'[Len(requests')].offset = Len(all_data)]_vars

\* C15 witness: a fetch has sent three requests, the third with offset 200
\* and with 200 records collected before it
C15_Witness ==
    /\ pc = "fetched"
    /\ Len(requests) = 3
    /\ requests[3] = [limit |-> 100, offset |-> 200]
    /\ Len(all_data) >= 200

\* the number of records of the successful responses so far
RecordsReceived ==
    LET RECURSIVE Sum(_)
        Sum(m) == IF m = 0 THEN 0
                  ELSE Sum(m - 1)
                         + (IF responses[m].status = 200 THEN responses[m].n ELSE 0)
    IN  Sum(Len(responses))

\* C16: during a fetch and after it the list collected is the pages of the
\* successful responses one after the other in request order, the last one
\* included when it is short: it holds as many records as were received, and
\* its k-th record is the record the API holds at position k - 1, so none is
\* lost, doubled or out of place.
C16_AllPagesConcatenated ==
    (pc \in {"fetch", "fetched"}) =>
       /\ all_data = PagesReceived(Len(responses))
       /\ Len(all_data) = RecordsReceived
       /\ \A k \in 1..Len(all_data) : all_data[k] = RawRecord(k - 1, seed)

\* C16 witness: a fetch of a full page and a page of 99 records has returned
\* 199 records, the last of them the API's record at position 198
C16_Witness ==
    /\ pc = "fetched"
    /\ Len(responses) = 2
    /\ responses[2] = [status |-> 200, n |-> limit - 1]
    /\ Len(all_data) = 2 * limit - 1
    /\ all_data[2 * limit - 1] = RawRecord(2 * limit - 2, seed)

\* the last response of the running fetch ends the loop: it is no success,
\* or its page is empty or shorter than 100 records
EndingResponse(resps) ==
    LET r == resps[Len(resps)]
    IN  r.status # 200 \/ r.n = 0 \/ r.n < 100

\* C17: every pass of the fetch loop sends a request, whatever the number of
\* requests and records so far (the loop has no bound of its own); the pass
\* leaves the loop if the response is no success, an empty page or a page
\* shorter than 100 records, and stays in it for another request if the
\* response is a full page; the fetch is left in no other way; and since the
\* API, holding finitely many records, does come to answer with such a
\* response, every fetch comes to its end.
C17_EndsOnlyOnEndingResponse ==
    /\ [][(pc = "fetch" /\ RunStep) =>
            /\ Requests
            /\ Len(responses') = Len(requests')
            /\ pc' = "fetched" <=> EndingResponse(responses')
            /\ pc' = "fetch" <=> ~EndingResponse(responses')]_vars
    /\ [][(pc' = "fetched" /\ pc # "fetched") =>
            (pc = "fetch" /\ EndingResponse(responses'))]_vars
    /\ (pc = "fetch") ~> (pc # "fetch")

\* C17 witness: a fetch went on after two full pages and ended on its third
\* response, a single record
C17_Witness ==
    /\ pc = "fetched"
    /\ Len(responses) = 3
    /\ FullPage(responses[1])
    /\ FullPage(responses[2])
    /\ responses[3] = [status |-> 200, n |-> 1]

\* the header lines among the lines of a sequence
HeaderLinesIn(lines) ==
    Cardinality({i \in 1..Len(lines) :
        lines[i] = "api_call_time,lastupdated,status_timestamp,zone_number,"
                     \o "status_description,kerbsideid,location_lon,location_lat"})

\* the processes that have passed the header step having found the file absent
WroteHeader ==
    {p \in Procs : proc[p].pc \in {"rows", "close", "done"}
                     /\ proc[p].flattened_data # <<>>
                     /\ ~proc[p].file_exists}

\* C19: with two save_to_csv calls interleaving on a file absent at the
\* start, a call finds the file absent exactly when it looks before any call
\* has opened it, whatever the other has done short of opening; every call
\* that found it absent writes a header, so the header lines written (in the
\* file and in the buffers still to be flushed) are as many as the calls that
\* found it absent, two when both looked before either opened; and once all
\* is flushed the file holds that many header lines followed or interleaved
\* with one row per record.
C19_HeaderPerAbsentObservation ==
    /\ \A p \in Procs :
          proc[p].pc \in {"open", "header", "rows", "close", "done"}
            /\ proc[p].flattened_data # <<>>
          => (proc[p].file_exists <=> proc[p].saw # {})
    /\ HeaderLinesIn(IF IsFile(fs, CSV_FILE) THEN fs[CSV_FILE] ELSE <<>>)
         + HeaderLinesIn(proc["a"].buffer) + HeaderLinesIn(proc["b"].buffer)
         = Cardinality(WroteHeader)
    /\ (\A p \in Procs : proc[p].pc = "done") /\ IsFile(fs, CSV_FILE) =>
          /\ HeaderLinesIn(fs[CSV_FILE]) = Cardinality(WroteHeader)
          /\ Len(fs[CSV_FILE]) =
               Cardinality(WroteHeader) + Len(proc["a"].flattened_data)
                 + Len(proc["b"].flattened_data)

\* C19 witness: both calls found the file absent, both have returned, and
\* the file holds two header lines
C19_Witness ==
    /\ \A p \in Procs : proc[p].pc = "done" /\ ~proc[p].file_exists
                          /\ proc[p].flattened_data # <<>>
    /\ HeaderLinesIn(fs[CSV_FILE]) = 2
    /\ HeaderLinesIn(fs[CSV_FILE]) > 1

=============================================================================
